---- MODULE Spec2Model ----
(***************************************************************************)
(* Model of src/python/kasaApi.py: the device connection lifecycle of the  *)
(* Kasa control-plane service.                                             *)
(*                                                                         *)
(* The service runs on one asyncio event loop.  A coroutine runs without   *)
(* interruption from one `await` of a network call (connect, update,       *)
(* capability call, disconnect, discovery) to the next, so every action    *)
(* below is: the outcome of the awaited call, followed by the synchronous  *)
(* code up to the next awaited call.  A `pc` value names the call a task   *)
(* is suspended in.  Acquiring a free asyncio.Lock does not suspend.       *)
(*                                                                         *)
(* The python-kasa library is the environment: whether a connect, update   *)
(* or capability call succeeds is chosen nondeterministically (volatile    *)
(* network), or read from the fixed `net` when `stable` is set.  A         *)
(* successful call on a handle leaves its session open (the library opens  *)
(* the transport on demand); disconnect() closes it and does not raise.    *)
(***************************************************************************)
EXTENDS Integers, FiniteSets, Sequences, TLC

\* ------------------------------------------------------------------ bounds
MaxHandles == 6     \* handles referred to at once (never all in use)

MaxOver == 2        \* how far a value goes below 0 and above 100
MaxTemp == 2        \* colour temperatures 1..MaxTemp
MaxChildren == 2    \* children of a device

Ids == 1..MaxHandles
None == 0                      \* Python None / an unbound local

HostSeq == <<"h1", "h2">>
Hosts == {HostSeq[k] : k \in 1..Len(HostSeq)}
NoHost == "nohost"
ReqSeq == <<"sys", "ctl">>     \* one get_sys_info task, one control_device task
Reqs == {ReqSeq[k] : k \in 1..Len(ReqSeq)}
NoTask == "none"
Targets == {"bc", "extra"}     \* "255.255.255.255" and one additional broadcast

\* Device kinds: a plug (no Light module), a dimmable bulb, a plug with a
\* HomeKit/Matter module, a camera (device type in UNSUPPORTED_TYPES).
Kinds == {"plug", "bulb", "hkplug", "camera"}
Features == {"state", "brightness", "bogus"}

VARIABLES
    device_cache,         \* Dict[str, Device]: host -> handle id, None if absent
    device_lock_cache,    \* Dict[str, asyncio.Lock]: the hosts that have a lock
    device_config_cache,  \* Dict[str, dict]: the hosts that have a stored config
    lockOwner,            \* owner of each lock of device_lock_cache
    hide_homekit_matter,  \* HIDE_HOMEKIT_MATTER, read once at start-up
    hopen,                \* handles whose session is open (connected, not disconnected)
    orphans,              \* hosts with an open session that nothing refers to
    req,                  \* the get_sys_info / control_device tasks
    sw,                   \* the discover_devices task
    net,                  \* the devices on the network
    stable,               \* TRUE: the network answers as `net` says, every time
    dispatch              \* one perform_device_action: its arguments, the calls it makes

vars == <<device_cache, device_lock_cache, device_config_cache, lockOwner,
          hide_homekit_matter, hopen, orphans, req, sw, net, stable, dispatch>>

\* ---------------------------------------------------------------- handles
NoDevices == [h \in Hosts |-> None]
Values(f) == {f[h] : h \in Hosts} \ {None}

\* The places that hold a handle: device_cache, the local `device` of each
\* request (rq), and in the sweep (s) `devices` and the disconnects that
\* close_all_connections has gathered; and the host each place is for.
Slots(cache, rq, s) ==
    <<cache[HostSeq[1]], cache[HostSeq[2]],
      rq[ReqSeq[1]].device, rq[ReqSeq[2]].device,
      s.devices[HostSeq[1]], s.devices[HostSeq[2]],
      s.closing[HostSeq[1]], s.closing[HostSeq[2]]>>
SlotHosts(rq) ==
    <<HostSeq[1], HostSeq[2], rq[ReqSeq[1]].host, rq[ReqSeq[2]].host,
      HostSeq[1], HostSeq[2], HostSeq[1], HostSeq[2]>>
RefsOf(cache, rq, s) ==
    LET sl == Slots(cache, rq, s) IN {sl[k] : k \in 1..Len(sl)} \ {None}

\* The host of every handle in use.
HostOf ==
    LET sl == Slots(device_cache, req, sw)
        sh == SlotHosts(req)
    IN  [i \in Ids |->
           IF \E k \in 1..Len(sl) : sl[k] = i
           THEN sh[CHOOSE k \in 1..Len(sl) : sl[k] = i] ELSE NoHost]

FreeIds == Ids \ RefsOf(device_cache, req, sw)
NthFree(free, n) == CHOOSE i \in free : Cardinality({j \in free : j <= i}) = n

\* Handle ids are names only: at the end of a step the handles are renamed in
\* the order of the places that refer to them.
Rho(sl, i) ==
    IF i = None THEN None
    ELSE LET k == CHOOSE k \in 1..Len(sl) :
                    sl[k] = i /\ \A j \in 1..(k - 1) : sl[j] # i
         IN  Cardinality({sl[j] : j \in 1..k} \ {None})

\* The end of every step: a handle nothing refers to any more is gone; if its
\* session was open, the session stays open with nobody to close it.
Settle(cache, rq, s, open, hh) ==
    LET sl == Slots(cache, rq, s)
        refs == RefsOf(cache, rq, s)
    IN  /\ device_cache' = [h \in Hosts |-> Rho(sl, cache[h])]
        /\ req' = [r \in Reqs |-> [rq[r] EXCEPT !.device = Rho(sl, @)]]
        /\ sw' = [s EXCEPT !.devices = [h \in Hosts |-> Rho(sl, s.devices[h])],
                           !.closing = [h \in Hosts |-> Rho(sl, s.closing[h])],
                           !.opened = {Rho(sl, i) : i \in @}]
        /\ hopen' = {Rho(sl, i) : i \in open \cap refs}
        /\ orphans' = orphans \cup {hh[i] : i \in open \ refs}

\* The open sessions to host h that a cache or a task still holds.
Sessions(h) == {i \in hopen : HostOf[i] = h}

\* The library's answer to one call on host h.  Device.connect builds the
\* protocol and runs the first update, so on a network that does not change
\* connect and update answer alike.
Outcomes(h) == IF stable THEN {net[h].up} ELSE BOOLEAN
SerOutcomes(h) == IF stable THEN {net[h].ser} ELSE BOOLEAN
Alive == {h \in Hosts : net[h].alive}

\* ----------------------------------------------------------------- UNSUPPORTED_TYPES
Unsupported(k) == k = "camera"
HasBridge(k) == k = "hkplug"

\* ------------------------------------------------------- perform_device_action
\* TRUE when the dispatch reaches a capability call; FALSE when it raises
\* before any call (ValueError "Invalid feature or action", or the attribute
\* error of `light.has_feature` on a target without a Light module).
Dispatchable(k, feature) ==
    CASE feature = "state" -> TRUE
      [] feature = "brightness" -> k = "bulb"
      [] OTHER -> FALSE

\* What a target can do: `light` is its Light module (FALSE: modules.get
\* gives None), feats the features of that module, fan its Fan module.
Shapes ==
    { [light |-> FALSE, feats |-> {}, fan |-> FALSE],
      [light |-> TRUE, feats |-> {"brightness"}, fan |-> FALSE],
      [light |-> TRUE, feats |-> {"brightness", "color_temp", "hsv"}, fan |-> FALSE],
      [light |-> FALSE, feats |-> {}, fan |-> TRUE] }
DispatchFeatures ==
    {"state", "brightness", "color_temp", "fan_speed_level", "hue", "bogus"}
DispatchValues == (0 - MaxOver)..(100 + MaxOver)
Parent == 0 - 1                \* the target when child_num is None: the device
IndexError == 0 - 2            \* children[child_num] raises

\* One perform_device_action.  hasChild, child: child_num (hasChild FALSE:
\* None); n: len(device.children); shape: what the target can do; lo, hi:
\* light.valid_temperature_range; calls: the device calls made, in order,
\* each [target, op, arg] with op "turn_off", "turn_on" or "action" (the
\* method named by `action`); status: "success", or "error" when it raised.
NoCall ==
    [feature |-> "none", value |-> 0, hasChild |-> FALSE, child |-> 0, n |-> 0,
     shape |-> [light |-> FALSE, feats |-> {}, fan |-> FALSE], lo |-> 0, hi |-> 0,
     done |-> FALSE, calls |-> <<>>, status |-> "none"]

\* device.children[child_num] (line 348): a Python list index.
ChildAt(n, i) ==
    IF 0 <= i /\ i < n THEN i
    ELSE IF 0 - n <= i /\ i < 0 THEN n + i
    ELSE IndexError

Min(a, b) == IF a <= b THEN a ELSE b
Max(a, b) == IF a >= b THEN a ELSE b

ACall(target, op, arg) == <<[target |-> target, op |-> op, arg |-> arg]>>

\* Handlers that would pass the value on as it came (what the code does not do).
set_raw(target, value) == ACall(target, "action", value)
set_temp_raw(target, value, min_temp, max_temp) == ACall(target, "action", value)

handle_brightness(target, value) ==
    IF value = 0 THEN ACall(target, "turn_off", 0)
    ELSE IF 0 < value /\ value <= 100 THEN ACall(target, "action", value)
    ELSE ACall(target, "turn_on", 0)

handle_color_temp(target, value, min_temp, max_temp) ==
    ACall(target, "action", Max(Min(value, max_temp), min_temp))

handle_fan_speed_level(target, value) ==
    IF value = 0 THEN ACall(target, "turn_off", 0)
    ELSE IF 0 < value /\ value <= 100 THEN ACall(target, "action", value)
    ELSE ACall(target, "turn_on", 0)

handle_hsv(target, value) == ACall(target, "action", value)

Raised(c) == [c EXCEPT !.done = TRUE, !.status = "error"]
Succeeded(c, calls) ==
    [c EXCEPT !.done = TRUE, !.status = "success", !.calls = calls]

\* Lines 348-365.  `light.has_feature(...)` on a target without a Light
\* module raises (light is None).
perform_device_action(c) ==
    LET target == IF c.hasChild THEN ChildAt(c.n, c.child) ELSE Parent
        s == c.shape
    IN  IF target = IndexError THEN Raised(c)
        ELSE IF c.feature = "state"
             THEN Succeeded(c, ACall(target, "action", 0))
        ELSE IF c.feature = "brightness" /\ ~s.light THEN Raised(c)
        ELSE IF c.feature = "brightness" /\ "brightness" \in s.feats
             THEN Succeeded(c, handle_brightness(target, c.value))
        ELSE IF c.feature = "color_temp" /\ ~s.light THEN Raised(c)
        ELSE IF c.feature = "color_temp" /\ "color_temp" \in s.feats
             THEN Succeeded(c, handle_color_temp(target, c.value, c.lo, c.hi))
        ELSE IF c.feature = "fan_speed_level" /\ s.fan
             THEN Succeeded(c, handle_fan_speed_level(target, c.value))
        ELSE IF c.feature = "hue" /\ ~s.light THEN Raised(c)
        ELSE IF c.feature = "hue" /\ "hsv" \in s.feats
             THEN Succeeded(c, handle_hsv(target, c.value))
        ELSE Raised(c)

\* ------------------------------------------------------------------- tasks
\* A request task.  valid: whether perform_device_action reaches a device
\* call for the feature asked of this host's device (TRUE for get_sys_info);
\* device: the local `device` (None: unbound); lock: the lock it looked up;
\* fails: the attempts that have ended by an exception; nOps, nConn, nCalls:
\* the operations attempted on a handle, the connects and the device calls
\* of this request.  A task that has returned is idle again and keeps the
\* result and the failures of the request it served.
IdleReq ==
    [pc |-> "idle", host |-> NoHost, valid |-> TRUE,
     device |-> None, lock |-> "none", nOps |-> 0, nConn |-> 0, nCalls |-> 0,
     fails |-> 0, result |-> "none"]
Returned(q, res) == [IdleReq EXCEPT !.result = res, !.fails = q.fails]

\* The discover_devices task.  manual, targets: its arguments; pending: the
\* discovery tasks not yet joined; devices, remove (devices_to_remove), tasks
\* (update_tasks), result (all_device_info): its locals; closing: the handles
\* close_all_connections is disconnecting; known, todo, failed: what is left
\* of the loops at lines 175, 184 and 219.  About this sweep: opened, the
\* sessions it opened; lost, the hosts of those that are open and that
\* nothing refers to; left, the hosts of those open when it ended; cached,
\* the hosts it put into device_cache.  About the run: n, the sweeps done;
\* kept, the arguments to repeat; prev, the outcome of the sweep before.
NoArgs == [manual |-> {}, targets |-> {}]
IdleSweep ==
    [pc |-> "idle", manual |-> {}, targets |-> {},
     pending |-> {}, devices |-> NoDevices, remove |-> {}, closing |-> NoDevices,
     known |-> {}, todo |-> {}, tasks |-> {}, failed |-> {}, result |-> {},
     opened |-> {}, lost |-> {}, left |-> {}, cached |-> {},
     n |-> 0, kept |-> NoArgs, prev |-> {}]

\* ------------------------------------------------- get_sys_info / control_device
\* A request step is computed on a record c = [q, cache, open, hh, owner]:
\* the task's locals, device_cache, the open sessions, the hosts of the
\* handles and the lock owners, as the synchronous code leaves them.
Conf(r) ==
    [q |-> req[r], cache |-> device_cache, open |-> hopen, hh |-> HostOf,
     owner |-> lockOwner]

\* A lookup that would never find the host's lock (what the code does not do).
FreshLock(h) == "fresh"

\* device_lock_cache.get(host, asyncio.Lock()): the host's lock, or a lock
\* made for this one lookup.
LockFor(h) == IF h \in device_lock_cache THEN "table" ELSE "fresh"
CanAcquire(l, h) == l = "fresh" \/ lockOwner[h] = NoTask
Acquire(r, c, l) ==
    [c EXCEPT !.q.lock = l,
              !.owner = IF l = "table" THEN [@ EXCEPT ![c.q.host] = r] ELSE @]
\* Leaving `async with device_lock`.
Release(c) ==
    [c EXCEPT !.q.lock = "none",
              !.owner = IF c.q.lock = "table"
                        THEN [@ EXCEPT ![c.q.host] = NoTask] ELSE @]

\* return {...} from inside the `async with`.
Finish(c, res) == [Release(c) EXCEPT !.q = Returned(c.q, res)]

\* The function ends by an exception (the route answers 500).
Raise(c) ==
    [Release(c) EXCEPT !.q = Returned([c.q EXCEPT !.fails = @ + 1], "raised")]

\* A handler that, after the retry has failed, would start over as after the
\* first failure (what the code does not do).
HandlerAgain(c) == [Release(c) EXCEPT !.q.pc = "disc1", !.q.fails = 1]

\* An exception leaves the `async with` and reaches the handler of the
\* attempt, `if device: await device.disconnect()`, with the lock released:
\* lines 278-281 and 325-328 after the first attempt, lines 288-291 and
\* 334-337 after the retry.
HandlerAfterRetry(c) == [Release(c) EXCEPT !.q.pc = "disc2", !.q.fails = 2]
HandlerAfterFirst(c) == [Release(c) EXCEPT !.q.pc = "disc1", !.q.fails = 1]
Fail(c) ==
    IF c.q.fails > 0 THEN HandlerAfterRetry(c) ELSE HandlerAfterFirst(c)

\* The operation on the resolved handle: update + serialize (get_sys_info,
\* first attempt), serialize alone (get_sys_info, retry), or
\* perform_device_action (control_device), which raises before any device
\* call when the request is not valid.  ser: whether custom_serializer returns.
Use(r, c, ser) ==
    LET q == c.q
        c1 == [c EXCEPT !.q.nOps = @ + 1]
        call == [c1 EXCEPT !.q.nCalls = @ + 1,
                           !.q.pc = IF q.fails > 0 THEN "use2" ELSE "use1"]
    IN  IF r = "sys"
        THEN IF q.fails = 0 THEN call
             ELSE IF ser THEN Finish(c1, "ok") ELSE Fail(c1)
        ELSE IF q.valid THEN call
             ELSE Fail(c1)

\* get_or_connect_device (lines 295-302), up to its await of Device.connect.
Resolve(r, c, ser) ==
    LET h == c.q.host IN
    IF c.cache[h] # None
    THEN Use(r, [c EXCEPT !.q.device = c.cache[h]], ser)
    ELSE [c EXCEPT !.q.nConn = @ + 1,
                   !.q.pc = IF c.q.fails > 0 THEN "conn2" ELSE "conn1"]

\* Lines 272-273, 283-284, 321-322, 330-331: look the lock up and enter it.
Enter(r, c, ser) ==
    LET l == LockFor(c.q.host) IN
    IF CanAcquire(l, c.q.host)
    THEN Resolve(r, Acquire(r, c, l), ser)
    ELSE [c EXCEPT !.q.lock = l,
                   !.q.pc = IF c.q.fails > 0 THEN "lock2" ELSE "lock1"]

Commit(r, c) ==
    /\ lockOwner' = c.owner
    /\ UNCHANGED <<device_lock_cache, device_config_cache, hide_homekit_matter,
                   net, stable, dispatch>>
    /\ Settle(c.cache, [req EXCEPT ![r] = c.q], sw, c.open, c.hh)

\* A request arrives.  Without a stored config DeviceConfig.from_dict(None)
\* raises, both handlers then read the unbound local `device`, and the
\* function ends by that exception.
ReqStart(r) ==
    /\ req[r].pc = "idle"
    /\ \E h \in Hosts, f \in Features, ser \in BOOLEAN :
        /\ r = "sys" => f = "state"
        /\ ser \in SerOutcomes(h)
        /\ LET q == [IdleReq EXCEPT
                       !.host = h,
                       !.valid = r = "sys" \/ Dispatchable(net[h].kind, f)]
               c == [Conf(r) EXCEPT !.q = q]
           IN  IF h \notin device_config_cache
               THEN Commit(r, Raise(c))
               ELSE Commit(r, Enter(r, c, ser))

\* The lock the task waits for is released.
ReqLock(r) ==
    /\ req[r].pc \in {"lock1", "lock2"}
    /\ CanAcquire(req[r].lock, req[r].host)
    /\ \E ser \in SerOutcomes(req[r].host) :
         Commit(r, Resolve(r, Acquire(r, Conf(r), req[r].lock), ser))

\* Device.connect returns or raises inside get_or_connect_device.  When it
\* raises, lines 303-308 pop the host (the local `device` there is None) and
\* raise again: out of the function on the first attempt, where the handlers
\* read the unbound `device`; into the second handler on the retry.
ReqConnected(r) ==
    /\ req[r].pc \in {"conn1", "conn2"}
    /\ LET c == Conf(r)
           h == c.q.host
       IN  \E ok \in Outcomes(h), ser \in SerOutcomes(h) :
             IF ok
             THEN /\ FreeIds # {}
                  /\ LET i == NthFree(FreeIds, 1) IN
                     Commit(r, Use(r, [c EXCEPT !.open = @ \cup {i},
                                                !.hh = [@ EXCEPT ![i] = h],
                                                !.cache = [@ EXCEPT ![h] = i],
                                                !.q.device = i], ser))
             ELSE LET c1 == [c EXCEPT !.cache = [@ EXCEPT ![h] = None]] IN
                  IF c.q.fails > 0
                  THEN Commit(r, HandlerAfterRetry(c1))
                  ELSE Commit(r, Raise(c1))

\* device.update() or the capability call returns or raises.
ReqUsed(r) ==
    /\ req[r].pc \in {"use1", "use2"}
    /\ LET c == Conf(r)
           h == c.q.host
       IN  \E ok \in Outcomes(h), ser \in SerOutcomes(h) :
             IF ok
             THEN LET c1 == [c EXCEPT !.open = @ \cup {c.q.device}] IN
                  IF r = "sys" /\ ~ser
                  THEN Commit(r, Fail(c1))
                  ELSE Commit(r, Finish(c1, "ok"))
             ELSE Commit(r, Fail(c))

\* device.disconnect() of a handler returns; then device_cache.pop(host).
\* After the first failure the request enters the lock again and retries;
\* after the second it returns {"error": ...}.
ReqDisconnected(r) ==
    /\ req[r].pc \in {"disc1", "disc2"}
    /\ LET c == Conf(r)
           h == c.q.host
           c1 == [c EXCEPT !.open = @ \ {c.q.device},
                           !.cache = [@ EXCEPT ![h] = None]]
       IN  IF c.q.pc = "disc1"
           THEN \E ser \in SerOutcomes(h) : Commit(r, Enter(r, c1, ser))
           ELSE Commit(r, [c1 EXCEPT !.q = Returned(c.q, "error")])

\* ------------------------------------------------------------ discover_devices
\* A sweep step is computed on a record w = [s, cache, open, hh, cfg, locks].
SwConf ==
    [s |-> sw, cache |-> device_cache, open |-> hopen, hh |-> HostOf,
     cfg |-> device_config_cache, locks |-> device_lock_cache]

\* The sweep's record of its own sessions, kept up to the step's end.
Account(w) ==
    LET refs == RefsOf(w.cache, req, w.s)
        lost == w.s.lost \cup {w.hh[i] : i \in (w.s.opened \cap w.open) \ refs}
        mine == w.s.opened \cap refs
    IN  IF w.s.pc \in {"ret", "raised"}
        THEN [w.s EXCEPT !.lost = {}, !.opened = {},
                         !.left = lost \cup {w.hh[i] : i \in mine \cap w.open}]
        ELSE [w.s EXCEPT !.lost = lost, !.opened = mine]

SwCommit(w) ==
    /\ device_config_cache' = w.cfg
    /\ device_lock_cache' = w.locks
    /\ UNCHANGED <<lockOwner, hide_homekit_matter, net, stable, dispatch>>
    /\ Settle(w.cache, req, Account(w), w.open, w.hh)

\* The handle made for host h when the hosts of A are given new handles.
Ix(h) == CHOOSE k \in 1..Len(HostSeq) : HostSeq[k] = h
NewId(free, A, h) == NthFree(free, Cardinality({a \in A : Ix(a) <= Ix(h)}))

\* return all_device_info (line 244): the locals go away.
SwRet(w) ==
    [w EXCEPT !.s.pc = "ret", !.s.devices = NoDevices]

\* Lines 237-242 follow the result loop.
AfterFailures(w) ==
    IF Values(w.s.devices) # {} THEN [w EXCEPT !.s.pc = "final"] ELSE SwRet(w)

\* Lines 219-235 follow the gather of line 217.
AfterGather(w) ==
    LET w1 == [w EXCEPT !.s.tasks = {}] IN
    IF w.s.failed # {} THEN [w1 EXCEPT !.s.pc = "failures"] ELSE AfterFailures(w1)

\* Line 217 follows the loop of lines 184-215.
AfterClassify(w) ==
    IF w.s.tasks # {} THEN [w EXCEPT !.s.pc = "gather"] ELSE AfterGather(w)

\* Lines 184-215 follow the loop of lines 175-182.
AfterReconnect(w) ==
    LET todo == {h \in Hosts : w.s.devices[h] # None} IN
    IF todo # {} THEN [w EXCEPT !.s.pc = "classify", !.s.todo = todo]
    ELSE AfterClassify(w)

\* A sweep that would not reconnect the known hosts (what the code does not do).
NoReconnect(cfg, devices) == {}

\* Lines 175-182: the hosts with a stored config and no handle in `devices`
\* are connected from their config.
ToReconnect(cfg, devices) == {h \in cfg : devices[h] = None}
AfterRemoval(w) ==
    LET known == ToReconnect(w.cfg, w.s.devices)
        w1 == [w EXCEPT !.s.remove = {}]
    IN  IF known # {} THEN [w1 EXCEPT !.s.pc = "reconnect", !.s.known = known]
        ELSE AfterReconnect(w1)

\* Lines 162-173: when every discovery task is joined, the hosts of
\* devices_to_remove are popped and disconnected.
AfterDiscovery(w) ==
    IF w.s.pending # {} THEN w
    ELSE IF \E h \in w.s.remove : w.s.devices[h] # None
         THEN [w EXCEPT !.s.pc = "remove"]
         ELSE AfterRemoval(w)

\* Lines 160-162: one task per broadcast target, one per manual host that is
\* not known (line 150; `devices` is still empty when these tasks start).
StartDiscovery(w) ==
    [w EXCEPT !.s.pc = "discover",
              !.s.pending = w.s.targets \cup (w.s.manual \ w.cfg),
              !.s.manual = {}, !.s.targets = {}]

\* discover_devices is called (lines 116-123): with a handle in device_cache,
\* close_all_connections gathers a disconnect for every cached handle.
SwBegin(manual, targets, kept) ==
    /\ sw.pc = "idle"
    /\ LET s == [IdleSweep EXCEPT !.manual = manual, !.targets = targets,
                                  !.n = sw.n, !.kept = kept, !.prev = sw.prev]
           w == [SwConf EXCEPT !.s = s]
       IN  IF Values(device_cache) # {}
           THEN SwCommit([w EXCEPT !.s.pc = "closing",
                                   !.s.closing = device_cache])
           ELSE SwCommit(StartDiscovery(w))

SwStart ==
    \E manual \in SUBSET Alive, targets \in {{"bc"}, Targets} :
        SwBegin(manual, targets, NoArgs)

\* close_all_connections (lines 246-251): the gathered disconnects are done,
\* then device_cache.clear().
SwClosed ==
    /\ sw.pc = "closing"
    /\ LET w == SwConf IN
       SwCommit(StartDiscovery(
           [w EXCEPT !.open = @ \ Values(sw.closing),
                     !.cache = NoDevices,
                     !.s.closing = NoDevices]))

\* The hosts that answer a broadcast on target t, and those among them whose
\* update() in on_discovered succeeds.
Answering(t) ==
    IF stable THEN {{h \in Alive : t \in net[h].answers}} ELSE SUBSET Alive
Probed(A) ==
    IF stable THEN {{h \in A : net[h].up}} ELSE SUBSET A

\* Lines 142-145: the answers for hosts with a stored config are dropped,
\* the others go into `devices`.
Discovered(A, cfg) == A \ cfg

\* discover_on_broadcast (lines 136-147) with on_discovered (125-134) for
\* every answer.  Discover.discover raising is an empty answer.
SwBroadcast(t) ==
    /\ sw.pc = "discover"
    /\ t \in sw.pending \cap Targets
    /\ LET w == SwConf
           free == FreeIds
       IN  \E A \in Answering(t) : \E P \in Probed(A) :
             /\ Cardinality(A) <= Cardinality(free)
             /\ LET id(h) == NewId(free, A, h)
                    keep == Discovered(A, w.cfg)
                IN  SwCommit(AfterDiscovery(
                      [w EXCEPT
                         !.hh = [i \in Ids |->
                                   IF \E h \in A : id(h) = i
                                   THEN CHOOSE h \in A : id(h) = i ELSE @[i]],
                         !.open = @ \cup {id(h) : h \in P},
                         !.s.opened = @ \cup {id(h) : h \in P},
                         !.s.remove = @ \cup (A \ P),
                         !.s.devices = [h \in Hosts |->
                                          IF h \in keep THEN id(h) ELSE @[h]],
                         !.s.pending = @ \ {t}]))

\* discover_manual_device (lines 149-158): res = "none" when discover_single
\* raises, "bad" when the update of on_discovered fails, "ok" otherwise.
ManualOutcomes(h) ==
    IF ~net[h].alive THEN {"none"}
    ELSE IF stable THEN {IF net[h].up THEN "ok" ELSE "bad"}
    ELSE {"none", "bad", "ok"}

SwManual(m) ==
    /\ sw.pc = "discover"
    /\ m \in sw.pending \cap Hosts
    /\ LET w == SwConf
           free == FreeIds
       IN  \E res \in ManualOutcomes(m) :
             IF res = "none"
             THEN SwCommit(AfterDiscovery([w EXCEPT !.s.pending = @ \ {m}]))
             ELSE /\ free # {}
                  /\ LET i == NthFree(free, 1)
                         opn == IF res = "ok" THEN {i} ELSE {}
                     IN  SwCommit(AfterDiscovery(
                           [w EXCEPT
                              !.hh = [@ EXCEPT ![i] = m],
                              !.open = @ \cup opn,
                              !.s.opened = @ \cup opn,
                              !.s.remove = IF res = "bad" THEN @ \cup {m} ELSE @,
                              !.s.devices = [@ EXCEPT ![m] = i],
                              !.s.pending = @ \ {m}]))

\* Lines 169-173.
SwRemoved ==
    /\ sw.pc = "remove"
    /\ LET w == SwConf
           gone == {sw.devices[h] : h \in sw.remove} \ {None}
       IN  SwCommit(AfterRemoval(
             [w EXCEPT !.open = @ \ gone,
                       !.s.devices = [h \in Hosts |->
                                        IF h \in sw.remove THEN None ELSE @[h]]]))

\* Line 181: Device.connect from the stored config returns, or raises out of
\* discover_devices (nothing catches it before discover_route).
SwReconnected(h) ==
    /\ sw.pc = "reconnect"
    /\ h \in sw.known
    /\ LET w == SwConf
           free == FreeIds
       IN  \E ok \in Outcomes(h) :
             IF ok
             THEN /\ free # {}
                  /\ LET i == NthFree(free, 1)
                         w1 == [w EXCEPT !.hh = [@ EXCEPT ![i] = h],
                                         !.open = @ \cup {i},
                                         !.s.opened = @ \cup {i},
                                         !.s.devices = [@ EXCEPT ![h] = i],
                                         !.s.known = @ \ {h}]
                     IN  IF w1.s.known = {} THEN SwCommit(AfterReconnect(w1))
                         ELSE SwCommit(w1)
             ELSE SwCommit([w EXCEPT !.s.pc = "raised",
                                     !.s.devices = NoDevices, !.s.known = {}])

\* Lines 206-207: the type check.
Supported(k) == ~Unsupported(k)
\* Lines 194-200: the bridge-exclusion policy.
Hidden(k) == hide_homekit_matter /\ HasBridge(k)
\* Lines 193-215: what the loop does with a device whose update succeeded.
Excluded(k) == Hidden(k) \/ ~Supported(k)

\* A sweep that would make no lock, and one that would keep only the configs
\* of its own run (what the code does not do).
WithoutLock(locks, h) == locks
ReplaceConfigs(cfg, okset) == okset

\* Lines 210-211: the host gets a lock unless it has one.
WithLock(locks, h) == locks \cup {h}
\* Line 257, for every create_device_info that got that far.
StoreConfigs(cfg, okset) == cfg \cup okset

\* One turn of the loop of lines 184-215.
SwClassified(h) ==
    /\ sw.pc = "classify"
    /\ h \in sw.todo
    /\ LET w == SwConf
           d == sw.devices[h]
           k == net[h].kind
           w0 == [w EXCEPT !.s.todo = @ \ {h}]
       IN  \E ok \in Outcomes(h) :
             LET w1 ==
                   IF ~ok THEN [w0 EXCEPT !.open = @ \ {d}]
                   ELSE IF Excluded(k)
                        THEN [w0 EXCEPT !.open = @ \ {d}]
                        ELSE [w0 EXCEPT
                                !.open = @ \cup {d},
                                !.cache = IF @[h] = None
                                          THEN [@ EXCEPT ![h] = d] ELSE @,
                                !.locks = WithLock(@, h),
                                !.s.cached = IF w.cache[h] = None
                                             THEN @ \cup {h} ELSE @,
                                !.s.tasks = @ \cup {h}]
             IN  IF w1.s.todo = {} THEN SwCommit(AfterClassify(w1))
                 ELSE SwCommit(w1)

\* The tasks of line 217 have run: create_device_info (lines 253-265) stores
\* the config and returns the info, or returns the exception.
Serialized(T) ==
    IF stable THEN {{h \in T : net[h].ser}} ELSE SUBSET T

SwGathered ==
    /\ sw.pc = "gather"
    /\ \E okset \in Serialized(sw.tasks) :
         SwCommit(AfterGather(
           [SwConf EXCEPT !.cfg = StoreConfigs(@, okset),
                          !.s.result = okset,
                          !.s.failed = sw.tasks \ okset]))

\* Lines 221-233 for one failed host: with a stored config the handle that
\* get_or_connect_device returns is disconnected (a handle connected for
\* that is closed at once, and a connect that fails has popped the host
\* already); then device_cache.pop(host).
SwFailure(h) ==
    /\ sw.pc = "failures"
    /\ h \in sw.failed
    /\ LET w == SwConf
           d == device_cache[h]
           w1 == [w EXCEPT !.open = IF h \in w.cfg THEN @ \ {d} ELSE @,
                           !.cache = [@ EXCEPT ![h] = None],
                           !.s.failed = @ \ {h}]
       IN  IF w1.s.failed = {} THEN SwCommit(AfterFailures(w1))
           ELSE SwCommit(w1)

\* Lines 237-244: every handle of `devices` is disconnected, then the result
\* is returned.
SwFinal ==
    /\ sw.pc = "final"
    /\ SwCommit(SwRet([SwConf EXCEPT !.open = @ \ Values(sw.devices)]))

\* discover_route has answered.
SwReturn ==
    /\ sw.pc \in {"ret", "raised"}
    /\ SwCommit([SwConf EXCEPT
          !.s = [IdleSweep EXCEPT !.n = sw.n, !.kept = sw.kept,
                                  !.prev = sw.prev]])

\* cleanup (lines 449-454), run after the server has stopped serving, when
\* no request and no sweep is in flight: close_all_connections, then both
\* tables are cleared.
Quiet == sw.pc = "idle" /\ \A r \in Reqs : req[r].pc = "idle"
Cleanup ==
    /\ Quiet
    /\ device_lock_cache # {}
    /\ device_lock_cache' = {}
    /\ device_config_cache' = {}
    /\ UNCHANGED <<lockOwner, hide_homekit_matter, net, stable, dispatch>>
    /\ Settle(NoDevices, req, sw, hopen \ Values(device_cache), HostOf)

\* ---------------------------------------------------------------- the system
InitCaches ==
    /\ device_cache = NoDevices
    /\ device_lock_cache = {}
    /\ device_config_cache = {}
    /\ lockOwner = [h \in Hosts |-> NoTask]
    /\ hopen = {}
    /\ orphans = {}
    /\ req = [r \in Reqs |-> IdleReq]
    /\ sw = IdleSweep
    /\ dispatch = NoCall

\* A device of a volatile network: up, ser and answers are not read.
Volatile(k, alive) ==
    [kind |-> k, alive |-> alive, up |-> TRUE, ser |-> TRUE, answers |-> {}]

\* The service with one plug on a volatile network, and a second address
\* where there is no device.
Init ==
    /\ InitCaches
    /\ hide_homekit_matter = FALSE
    /\ stable = FALSE
    /\ net = [h \in Hosts |-> Volatile("plug", h = HostSeq[1])]

Requests ==
    \/ \E r \in Reqs : ReqStart(r)
    \/ \E r \in Reqs : ReqLock(r)
    \/ \E r \in Reqs : ReqConnected(r)
    \/ \E r \in Reqs : ReqUsed(r)
    \/ \E r \in Reqs : ReqDisconnected(r)

Sweep ==
    \/ SwClosed
    \/ \E t \in Targets : SwBroadcast(t)
    \/ \E m \in Hosts : SwManual(m)
    \/ SwRemoved
    \/ \E h \in Hosts : SwReconnected(h)
    \/ \E h \in Hosts : SwClassified(h)
    \/ SwGathered
    \/ \E h \in Hosts : SwFailure(h)
    \/ SwFinal

Next == Requests \/ SwStart \/ Sweep \/ SwReturn \/ Cleanup

Spec == Init /\ [][Next]_vars

\* Sweeps alone, over two devices of every kind on a volatile network.
InitSweep ==
    /\ InitCaches
    /\ hide_homekit_matter \in BOOLEAN
    /\ stable = FALSE
    /\ \E kinds \in [Hosts -> Kinds] :
         net = [h \in Hosts |-> Volatile(kinds[h], TRUE)]

NextSweep == SwStart \/ Sweep \/ SwReturn

SpecSweep == InitSweep /\ [][NextSweep]_vars

\* Two sweeps in a row with the same arguments on a network that does not
\* change: every device answers every call the same way.
Devices ==
    {Volatile("plug", FALSE)}
      \cup [kind : Kinds \ {"bulb"}, alive : {TRUE}, up : BOOLEAN,
            ser : BOOLEAN, answers : {{}, {"bc"}, Targets}]

InitIdem ==
    /\ InitCaches
    /\ hide_homekit_matter = TRUE
    /\ stable = TRUE
    /\ net \in [Hosts -> Devices]

Outcome(s) == IF s.pc = "raised" THEN {"error"} ELSE s.result

SwFirst ==
    /\ sw.n = 0
    /\ \E manual \in SUBSET Hosts, targets \in {{"bc"}, Targets} :
         SwBegin(manual, targets, [manual |-> manual, targets |-> targets])

SwAgain ==
    /\ sw.n = 1
    /\ SwBegin(sw.kept.manual, sw.kept.targets, sw.kept)

SwReturnKept ==
    /\ sw.pc \in {"ret", "raised"}
    /\ SwCommit([SwConf EXCEPT
          !.s = [IdleSweep EXCEPT !.n = sw.n + 1, !.kept = sw.kept,
                                  !.prev = Outcome(sw)]])

NextIdem == SwFirst \/ SwAgain \/ Sweep \/ SwReturnKept

SpecIdem == InitIdem /\ [][NextIdem]_vars

\* perform_device_action alone, on every feature, value, child index and
\* kind of target (the device calls it makes succeed).
DispatchInputs ==
    { c \in [feature : DispatchFeatures, value : DispatchValues,
              hasChild : BOOLEAN, child : (0 - MaxChildren - 1)..MaxChildren,
              n : 0..MaxChildren, shape : Shapes, lo : 1..MaxTemp, hi : 1..MaxTemp,
              done : {FALSE}, calls : {<<>>}, status : {"none"}] :
        /\ c.lo <= c.hi
        /\ ~c.hasChild => c.child = 0 }

InitDispatch ==
    /\ device_cache = NoDevices
    /\ device_lock_cache = {}
    /\ device_config_cache = {}
    /\ lockOwner = [h \in Hosts |-> NoTask]
    /\ hopen = {}
    /\ orphans = {}
    /\ req = [r \in Reqs |-> IdleReq]
    /\ sw = IdleSweep
    /\ hide_homekit_matter = FALSE
    /\ stable = FALSE
    /\ net = [h \in Hosts |-> Volatile("plug", h = HostSeq[1])]
    /\ dispatch \in DispatchInputs

PerformDeviceAction ==
    /\ ~dispatch.done
    /\ dispatch' = perform_device_action(dispatch)
    /\ UNCHANGED <<device_cache, device_lock_cache, device_config_cache,
                   lockOwner, hide_homekit_matter, hopen, orphans, req, sw,
                   net, stable>>

NextDispatch == PerformDeviceAction

SpecDispatch == InitDispatch /\ [][NextDispatch]_vars

\* ------------------------------------------------------------------ properties
LiveSessions(h) == Cardinality(Sessions(h)) + (IF h \in orphans THEN 1 ELSE 0)

\* C1: at every instant and for every host there is at most one live session
\* (connected and not yet disconnected), whatever the interleaving of sweeps
\* and requests.
OneLiveSessionPerHost ==
    \A h \in Hosts : LiveSessions(h) <= 1

\* C2: a request whose handle fails on first use disconnects it, evicts the
\* host, resolves again and retries once; a second failure goes to the last
\* handler and ends the request with an error result; no request makes a
\* third operation attempt or a third connect.
RetryOnceStep(r) ==
    LET q == req[r]
        p == req'[r]
    IN  /\ p.nOps <= 2 /\ p.nConn <= 2 /\ p.fails <= 2
        /\ (q.pc = "disc1" /\ p.pc # "disc1") =>
              /\ p.device \notin hopen'
              /\ device_cache'[q.host] = None
              /\ p.pc \in {"lock2", "conn2"}
        /\ (q.fails = 1 /\ p.fails = 2) => p.pc = "disc2"
        /\ (q.pc = "disc2" /\ p.pc # "disc2") =>
              /\ p.pc = "idle" /\ p.result = "error"
              /\ device_cache'[q.host] = None
RetryOnce == [][\A r \in Reqs : RetryOnceStep(r)]_vars

\* C2 witness: a request has failed on first use, retried, failed again and
\* returned the error result.
RetryOnceSeen ==
    \E r \in Reqs :
        req[r].pc = "idle" /\ req[r].fails = 2 /\ req[r].result = "error"

\* C3: for one host, while a request is between obtaining the handle and the
\* end of its evict-and-reconnect sequence, no other request for that host
\* connects or uses a handle.
InSequence(q) == q.pc \in {"use1", "disc1", "lock2", "conn2", "use2", "disc2"}
Touching(q) == q.pc \in {"conn1", "use1", "conn2", "use2"}
RequestsSerialized ==
    \A r1, r2 \in Reqs :
        (r1 # r2 /\ req[r1].host = req[r2].host)
            => ~(InSequence(req[r1]) /\ Touching(req[r2]))

\* C4: the sweep does not disconnect a host's cached handle while a request
\* holds the host's lock and uses that handle.
SweepExcludesRequests ==
    \A r \in Reqs :
        (req[r].pc \in {"use1", "use2"} /\ lockOwner[req[r].host] = r)
            => ~(sw.pc = "closing" /\ req[r].device \in Values(sw.closing))

\* C5: when a sweep returns, device_cache is empty, and the reported hosts
\* have their stored config and their lock.
CacheEmptyAfterSweep ==
    sw.pc = "ret" =>
        /\ device_cache = NoDevices
        /\ sw.result \subseteq device_config_cache
        /\ device_config_cache \subseteq device_lock_cache

\* C6: when a sweep ends, by return or by exception, every session opened
\* during the sweep has been disconnected.
SweepClosesItsSessions ==
    sw.pc \in {"ret", "raised"} => sw.left = {}

\* C7: when a sweep returns, a device of an unsupported type, or with a
\* HomeKit/Matter module under hide_homekit_matter, is not in the result, was
\* not put into device_cache by the sweep, and has no session of the sweep open.
ExcludedHosts == {h \in Hosts : Excluded(net[h].kind)}
ExcludedStayOut ==
    sw.pc = "ret" =>
        ExcludedHosts \cap (sw.result \cup sw.cached \cup sw.left) = {}

\* C8: on an unchanged network the second of two sweeps with the same
\* arguments reports the same hosts as the first.
SecondSweepSame ==
    (sw.n = 1 /\ sw.pc \in {"ret", "raised"}) => Outcome(sw) = sw.prev

\* C8 witness: the second sweep has returned hosts; they were known from the
\* first sweep, so the second one reached them by reconnecting.
SecondSweepReported ==
    /\ sw.n = 1 /\ sw.pc = "ret"
    /\ sw.result # {} /\ sw.result \subseteq device_config_cache

\* C9: a failure for one host never makes the sweep fail as a whole.
SweepNeverRaises ==
    sw.pc # "raised"

\* C10: a control_device request with an invalid feature makes no device
\* call, and is followed by no disconnect, eviction, reconnect or retry.
InvalidFailsAtOnce ==
    \A r \in Reqs :
        ~req[r].valid =>
            /\ req[r].nCalls = 0
            /\ req[r].pc \notin {"disc1", "lock2", "conn2", "use2", "disc2"}
            /\ req[r].nOps <= 1

\* C11: get_sys_info and control_device never end by an exception: every
\* request returns a success result or a structured error result.
NoExceptionEscapes ==
    \A r \in Reqs : req[r].result # "raised"

\* The dispatch has run on a target that exists and has the capability that
\* the feature f needs.
TargetExists ==
    ~dispatch.hasChild \/ ChildAt(dispatch.n, dispatch.child) # IndexError
Dispatched(f) ==
    /\ dispatch.done /\ dispatch.feature = f /\ TargetExists
    /\ CASE f = "brightness" -> "brightness" \in dispatch.shape.feats
         [] f = "color_temp" -> "color_temp" \in dispatch.shape.feats
         [] f = "fan_speed_level" -> dispatch.shape.fan
         [] OTHER -> TRUE

\* C12: brightness and fan_speed_level on a capable target make exactly one
\* device call: power-off for value 0, the named setter with that value for
\* 0 < value <= 100, power-on for every other value.
ValuePolicy ==
    (Dispatched("brightness") \/ Dispatched("fan_speed_level")) =>
        /\ dispatch.status = "success"
        /\ Len(dispatch.calls) = 1
        /\ LET v == dispatch.value
               k == dispatch.calls[1]
           IN  /\ v = 0 => k.op = "turn_off"
               /\ (0 < v /\ v <= 100) => (k.op = "action" /\ k.arg = v)
               /\ (v < 0 \/ v > 100) => k.op = "turn_on"

\* C12 witness: fan_speed_level with a value above 100 has made a power-on call.
ValuePolicySeen ==
    /\ Dispatched("fan_speed_level")
    /\ dispatch.value > 100
    /\ dispatch.calls = ACall(Parent, "turn_on", 0)

\* C13: color_temp on a capable target calls the setter exactly once, with
\* the value clamped into the range the device reports.
Clamped ==
    Dispatched("color_temp") =>
        /\ dispatch.status = "success"
        /\ Len(dispatch.calls) = 1
        /\ dispatch.calls[1].op = "action"
        /\ LET v == dispatch.value
               a == dispatch.calls[1].arg
           IN  /\ v < dispatch.lo => a = dispatch.lo
               /\ v > dispatch.hi => a = dispatch.hi
               /\ (dispatch.lo <= v /\ v <= dispatch.hi) => a = v

\* C13 witness: a value below the minimum has reached the setter as the minimum.
ClampedSeen ==
    /\ Dispatched("color_temp")
    /\ dispatch.value < dispatch.lo
    /\ dispatch.lo < dispatch.hi
    /\ dispatch.calls[1].arg = dispatch.lo

\* C14: with a child index i on a device with n children, every call goes to
\* child i when 0 <= i < n, and for every other index the dispatch fails and
\* makes no call.
ChildIndexChecked ==
    (dispatch.done /\ dispatch.hasChild) =>
        IF 0 <= dispatch.child /\ dispatch.child < dispatch.n
        THEN \A k \in 1..Len(dispatch.calls) :
                 dispatch.calls[k].target = dispatch.child
        ELSE dispatch.status = "error" /\ dispatch.calls = <<>>

\* C15: a host's entry in device_cache is inserted or removed only in a
\* step that starts with the host's lock held.
CacheChanged(h) == (device_cache[h] = None) # (device_cache'[h] = None)
MutationsUnderLock ==
    [][\A h \in Hosts : CacheChanged(h) => lockOwner[h] # NoTask]_vars

\* C16: a device call is issued only on a handle whose session is open: never
\* on a handle that has been disconnected.
CallsOnLiveHandles ==
    [][\A r \in Reqs :
         req'[r].nCalls > req[r].nCalls => req'[r].device \in hopen']_vars

\* C17: the handle a request's handler removes from device_cache is
\* disconnected (by that handler, or before), and a request that has
\* returned holds no lock.
HandlerStep(r) == req[r].pc \in {"disc1", "disc2"} /\ req'[r].pc # req[r].pc
EvictsOnlyDisconnected ==
    [][\A r \in Reqs :
         /\ (HandlerStep(r) /\ device_cache[req[r].host] # None) =>
               \/ device_cache[req[r].host] \notin hopen
               \/ device_cache[req[r].host] = req[r].device
         /\ req'[r].pc = "idle" => \A h \in Hosts : lockOwner'[h] # r]_vars

CleanupStep ==
    /\ Quiet
    /\ device_lock_cache' = {} /\ device_config_cache' = {}
    /\ device_cache' = NoDevices
InLock(q) == q.lock # "none" /\ q.pc \in {"conn1", "use1", "conn2", "use2"}
ConfigPersists ==
    [][/\ device_config_cache \subseteq device_config_cache' \/ CleanupStep
       /\ (device_config_cache' \ device_config_cache) # {} =>
             /\ sw.pc = "gather"
             /\ (device_config_cache' \ device_config_cache) \subseteq sw.tasks]_vars

\* C19 witness: a request has failed twice and evicted the host's handle, and
\* the host's config is still stored.
ConfigPersistsSeen ==
    \E r \in Reqs :
        /\ req[r].result = "error" /\ req[r].fails = 2
        /\ device_cache = NoDevices
        /\ device_config_cache # {}

\* C20: every host with a stored config has a lock in the table, and every
\* request past loading its config is for such a host.
ConfigHasLock ==
    /\ device_config_cache \subseteq device_lock_cache
    /\ \A r \in Reqs :
         req[r].pc # "idle" => req[r].host \in device_lock_cache

\* C20 witness: a request uses a handle while it owns the table's lock of a
\* host with a stored config.
ConfigHasLockSeen ==
    \E r \in Reqs :
        /\ req[r].pc \in {"use1", "use2"}
        /\ req[r].host \in device_config_cache
        /\ lockOwner[req[r].host] = r

====
